---- MODULE Spec2Model ----
(***************************************************************************)
(* A model of the YKUSH3 driver (package ykush3, src/ykush3.go).           *)
(*                                                                         *)
(* The state is the YKUSH3 struct of every handle a caller holds (device,  *)
(* serial), the activation record of every call in progress, and the HID   *)
(* connection behind each handle: the reports written and not yet read     *)
(* back, the switch's three outputs, and how often the connection has been *)
(* closed.  A call is cut at its blocking transport calls, hid Write (line *)
(* 135) and hid Read (line 140): its code up to the first one, between the *)
(* two, and after the second one are one step each.                        *)
(***************************************************************************)
EXTENDS Integers, Sequences, FiniteSets, TLC

VARIABLES
    device,     \* device[h]: y.device, NIL or the connection the handle owns
    serial,     \* serial[h]: y.serial
    lifecycle,  \* lifecycle[h]: "Unopened", "Open" or "Closed" (history of h)
    closeCalls, \* closeCalls[h]: calls of hid Device.Close on h's connection
    call,       \* call[c]: the activation record of caller c's current call
    wire,       \* wire[h]: the replies the switch has queued on h's connection
    outputs,    \* outputs[h]: the switch's three outputs, TRUE = powered
    lastSet     \* lastSet[h][p]: what the last successful PortUp or PortDown
                \* covering port p set it to, "on" or "off"; "unset" if none
                \* (recorded against the stub switch only)

vars == <<device, serial, lifecycle, closeCalls, call, wire, outputs, lastSet>>

----------------------------------------------------------------------------
(* Program constants.                                                      *)

ReportSize == 64

Port1 == 1
Port2 == 2
Port3 == 3
AllPorts == 10

PortOff == FALSE
PortOn == TRUE

\* The status byte GetPortState, PortUp and PortDown compare resp[0] with.
StatusOK == 1

----------------------------------------------------------------------------
(* Bounds of the model.                                                    *)

\* Port arguments are drawn from 0..MaxPortArg, AllPorts and its successor:
\* the four valid ports and values around them that are no port.
MaxPortArg == 4

\* Each of the two response bytes the code inspects is drawn from the
\* opcodes of the protocol, which are all the code compares a byte with, and
\* from 0..MaxOtherByte, which adds bytes that are none of them.
MaxOtherByte == 4

PortArgs == (0..MaxPortArg) \cup {AllPorts, AllPorts + 1}
Opcodes == {\H01, \H02, \H03, \H0A, \H11, \H12, \H13, \H1A, \H21, \H22, \H23}
RespBytes == Opcodes \cup (0..MaxOtherByte)

\* The handles and callers of the sequential specifications.
OneHandle == {1}
OneCaller == {1}

\* Serial numbers a caller passes to NewWithSerial; "" means "first device".
Serials == {"", "YK12345"}

----------------------------------------------------------------------------
(* Values.                                                                 *)

\* The nil *hid.Device, and the connection handle h owns once opened.
NIL == <<>>
Conn(h) == <<h>>

\* The errors the package returns, by the message that identifies them.
ErrNone == "nil"
ErrInvalidPort == "invalid port"
ErrInvalidQueryPort == "invalid port for state query"
ErrNotConnected == "device not connected"
ErrSend == "failed to send command"
ErrRead == "failed to read response"
ErrUnexpectedResponse == "unexpected response"
ErrCommandFailed == "command failed"
ErrUnexpectedState == "unexpected state response"
\* Errors of the hid package, passed on unwrapped or wrapped with %w.
ErrInit == "failed to initialize HID library"
ErrOpen == "failed to open YKUSH3 device"
ErrSerial == "hid: GetSerialNbr failed"
ErrClose == "hid: Close failed"
\* A method of a nil *hid.Device dereferences it.
ErrNilDeref == "nil pointer dereference"

\* cmdBuf of sendCommand: ReportSize zero bytes, then bytes 0 and 1 set.
Report(cmd, ctrl) ==
    [i \in 0..(ReportSize - 1) |-> IF i = 0 THEN cmd ELSE IF i = 1 THEN ctrl ELSE 0]

\* A map[Port]PortState as a function on the ports it has entries for.
EmptyMap == [p \in {} |-> PortOff]
MapPut(m, k, v) == [p \in (DOMAIN m) \cup {k} |-> IF p = k THEN v ELSE m[p]]

\* rec with the fields of upd set to upd's values.
Merge(rec, upd) == upd @@ rec

----------------------------------------------------------------------------
(* The command tables: the switch statements of PortUp, PortDown and       *)
(* GetPortState.  cmd is the zero byte where the default branch returns.   *)

\* PortUpSwitch with the AllPorts case copied from PortDown.
PortUpSwitchLowerAll(port) ==
    CASE port = Port1 -> [err |-> ErrNone, cmd |-> \H11]
      [] port = Port2 -> [err |-> ErrNone, cmd |-> \H12]
      [] port = Port3 -> [err |-> ErrNone, cmd |-> \H13]
      [] port = AllPorts -> [err |-> ErrNone, cmd |-> \H0A]
      [] OTHER -> [err |-> ErrInvalidPort, cmd |-> 0]

PortUpSwitch(port) ==
    CASE port = Port1 -> [err |-> ErrNone, cmd |-> \H11]
      [] port = Port2 -> [err |-> ErrNone, cmd |-> \H12]
      [] port = Port3 -> [err |-> ErrNone, cmd |-> \H13]
      [] port = AllPorts -> [err |-> ErrNone, cmd |-> \H1A]
      [] OTHER -> [err |-> ErrInvalidPort, cmd |-> 0]

\* PortDownSwitch with Port3's byte in the Port2 case.
PortDownSwitchPort2As3(port) ==
    CASE port = Port1 -> [err |-> ErrNone, cmd |-> \H01]
      [] port = Port2 -> [err |-> ErrNone, cmd |-> \H03]
      [] port = Port3 -> [err |-> ErrNone, cmd |-> \H03]
      [] port = AllPorts -> [err |-> ErrNone, cmd |-> \H0A]
      [] OTHER -> [err |-> ErrInvalidPort, cmd |-> 0]

PortDownSwitch(port) ==
    CASE port = Port1 -> [err |-> ErrNone, cmd |-> \H01]
      [] port = Port2 -> [err |-> ErrNone, cmd |-> \H02]
      [] port = Port3 -> [err |-> ErrNone, cmd |-> \H03]
      [] port = AllPorts -> [err |-> ErrNone, cmd |-> \H0A]
      [] OTHER -> [err |-> ErrInvalidPort, cmd |-> 0]

\* GetPortStateSwitch with a case for AllPorts, as the other two have.
GetPortStateSwitchAll(port) ==
    CASE port = Port1 -> [err |-> ErrNone, cmd |-> \H21]
      [] port = Port2 -> [err |-> ErrNone, cmd |-> \H22]
      [] port = Port3 -> [err |-> ErrNone, cmd |-> \H23]
      [] port = AllPorts -> [err |-> ErrNone, cmd |-> \H2A]
      [] OTHER -> [err |-> ErrInvalidQueryPort, cmd |-> 0]

\* GetPortStateSwitch with Port3's PortUp opcode for its query opcode.
GetPortStateSwitchRaises(port) ==
    CASE port = Port1 -> [err |-> ErrNone, cmd |-> \H21]
      [] port = Port2 -> [err |-> ErrNone, cmd |-> \H22]
      [] port = Port3 -> [err |-> ErrNone, cmd |-> \H13]
      [] OTHER -> [err |-> ErrInvalidQueryPort, cmd |-> 0]

GetPortStateSwitch(port) ==
    CASE port = Port1 -> [err |-> ErrNone, cmd |-> \H21]
      [] port = Port2 -> [err |-> ErrNone, cmd |-> \H22]
      [] port = Port3 -> [err |-> ErrNone, cmd |-> \H23]
      [] OTHER -> [err |-> ErrInvalidQueryPort, cmd |-> 0]

\* The switch of the function fn, one of "PortUp", "PortDown", "GetPortState".
CmdSwitch(fn, port) ==
    CASE fn = "PortUp" -> PortUpSwitch(port)
      [] fn = "PortDown" -> PortDownSwitch(port)
      [] fn = "GetPortState" -> GetPortStateSwitch(port)

----------------------------------------------------------------------------
(* Response validation and decoding.                                       *)

\* CheckAck with "and" for "or": an error only if both bytes are wrong.
CheckAckBoth(resp, cmd) ==
    IF resp.b0 # StatusOK /\ resp.b1 # cmd THEN ErrUnexpectedResponse ELSE ErrNone

\* PortUp and PortDown, lines 168-172 and 196-200: the error returned for the
\* response resp to the command cmd.
CheckAck(resp, cmd) ==
    IF resp.b0 # StatusOK \/ resp.b1 # cmd THEN ErrUnexpectedResponse ELSE ErrNone

\* DecodeState with the query opcodes as the off codes.
DecodeStateQueryCodes(resp) ==
    IF resp.b0 # StatusOK
      THEN [state |-> PortOff, err |-> ErrCommandFailed]
      ELSE CASE resp.b1 \in {\H21, \H22, \H23} -> [state |-> PortOff, err |-> ErrNone]
             [] resp.b1 \in {\H11, \H12, \H13} -> [state |-> PortOn, err |-> ErrNone]
             [] OTHER -> [state |-> PortOff, err |-> ErrUnexpectedState]

\* GetPortState, lines 222-233: the (PortState, error) returned for resp.
DecodeState(resp) ==
    IF resp.b0 # StatusOK
      THEN [state |-> PortOff, err |-> ErrCommandFailed]
      ELSE CASE resp.b1 \in {\H01, \H02, \H03} -> [state |-> PortOff, err |-> ErrNone]
             [] resp.b1 \in {\H11, \H12, \H13} -> [state |-> PortOn, err |-> ErrNone]
             [] OTHER -> [state |-> PortOff, err |-> ErrUnexpectedState]

----------------------------------------------------------------------------
(* Activation records.                                                     *)

\* QueryOrder with Port2 and Port3 exchanged.
QueryOrderSwapped == <<Port1, Port3, Port2>>

\* The ports GetAllPortsState queries, in the order of its slice.
QueryOrder == <<Port1, Port2, Port3>>

\* A caller between calls, before its first one.
IdleCall ==
    [pc |-> "idle", op |-> "none", h |-> 1, port |-> 0, state |-> PortOff,
     fn |-> "none", fnPort |-> 0, cmd |-> 0, idx |-> 0, states |-> EmptyMap,
     buf |-> Report(0, 0), io |-> <<>>, resp |-> [b0 |-> 0, b1 |-> 0],
     retErr |-> ErrNone, retWrapped |-> FALSE, retState |-> PortOff,
     retStates |-> EmptyMap, retNilMap |-> TRUE, retSerial |-> ""]

\* The record of a call of op on handle h with the arguments port and state,
\* at its entry.
NewCall(op, h, port, state) ==
    Merge(IdleCall, [pc |-> "entry", op |-> op, h |-> h, port |-> port, state |-> state])

\* ReturnError where GetAllPortsState returns the map it has built so far
\* with the error ("return states, err").
ReturnErrorPartialMap(rec, err) ==
    Merge(rec, [pc |-> "done", retErr |-> err,
                retWrapped |-> (rec.op = "GetAllPortsState"),
                retState |-> PortOff, retStates |-> rec.states,
                retNilMap |-> (rec.op # "GetAllPortsState")])

\* The call returns the error err: a plain error from PortUp, PortDown and
\* their wrappers, (PortOff, err) from GetPortState, and (nil, err wrapped
\* with the port) from GetAllPortsState, line 262.
ReturnError(rec, err) ==
    Merge(rec, [pc |-> "done", retErr |-> err,
                retWrapped |-> (rec.op = "GetAllPortsState"),
                retState |-> PortOff, retStates |-> EmptyMap, retNilMap |-> TRUE])

\* sendCommand without its nil check.
sendCommandUnchecked(rec, cmd, ctrl) ==
    Merge(rec, [pc |-> "write", cmd |-> cmd, buf |-> Report(cmd, ctrl)])

\* sendCommand, lines 127-133: the nil check, then cmdBuf is built and the
\* call stands before hid Write.
sendCommand(rec, cmd, ctrl) ==
    IF device[rec.h] = NIL
      THEN ReturnError(rec, ErrNotConnected)
      ELSE Merge(rec, [pc |-> "write", cmd |-> cmd, buf |-> Report(cmd, ctrl)])

\* PortUp, PortDown or GetPortState (fn) is entered with port: its switch,
\* then sendCommand(cmd, cmd).
EnterFn(rec, fn, port) ==
    LET sw == CmdSwitch(fn, port)
        r == Merge(rec, [fn |-> fn, fnPort |-> port])
    IN  IF sw.err # ErrNone
          THEN ReturnError(r, sw.err)
          ELSE sendCommand(r, sw.cmd, sw.cmd)

\* Iteration i of the loop of GetAllPortsState, lines 259-265.
GetAllPortsStateIter(rec, i) ==
    EnterFn(Merge(rec, [idx |-> i]), "GetPortState", QueryOrder[i])

\* ReturnState with a loop that starts over after the last port.
ReturnStateLoops(rec, st) ==
    IF rec.op = "GetAllPortsState"
      THEN LET r == Merge(rec, [states |-> MapPut(rec.states, rec.fnPort, st)])
           IN  IF rec.idx < Len(QueryOrder)
                 THEN GetAllPortsStateIter(r, rec.idx + 1)
                 ELSE GetAllPortsStateIter(r, 1)
      ELSE Merge(rec, [pc |-> "done", retErr |-> ErrNone, retState |-> st])

\* GetPortState returned (st, nil) to its caller.
ReturnState(rec, st) ==
    IF rec.op = "GetAllPortsState"
      THEN LET r == Merge(rec, [states |-> MapPut(rec.states, rec.fnPort, st)])
           IN  IF rec.idx < Len(QueryOrder)
                 THEN GetAllPortsStateIter(r, rec.idx + 1)
                 ELSE Merge(r, [pc |-> "done", retErr |-> ErrNone,
                                retStates |-> r.states, retNilMap |-> FALSE])
      ELSE Merge(rec, [pc |-> "done", retErr |-> ErrNone, retState |-> st])

\* AfterExchange with a decoder that knows only the queried port's two codes.
AfterExchangeOwnPort(rec, resp) ==
    LET r == Merge(rec, [resp |-> resp])
    IN  IF rec.fn = "GetPortState"
          THEN LET d == DecodeState(resp)
                   own == resp.b1 \in {rec.fnPort, \H10 + rec.fnPort}
               IN  IF d.err # ErrNone THEN ReturnError(r, d.err)
                   ELSE IF ~own THEN ReturnError(r, ErrUnexpectedState)
                   ELSE ReturnState(r, d.state)
          ELSE LET e == CheckAck(resp, rec.cmd)
               IN  IF e # ErrNone THEN ReturnError(r, e)
                                  ELSE Merge(r, [pc |-> "done", retErr |-> ErrNone])

\* The code after sendCommand returned resp without error.
AfterExchange(rec, resp) ==
    LET r == Merge(rec, [resp |-> resp])
    IN  IF rec.fn = "GetPortState"
          THEN LET d == DecodeState(resp)
               IN  IF d.err # ErrNone THEN ReturnError(r, d.err)
                                      ELSE ReturnState(r, d.state)
          ELSE LET e == CheckAck(resp, rec.cmd)
               IN  IF e # ErrNone THEN ReturnError(r, e)
                                  ELSE Merge(r, [pc |-> "done", retErr |-> ErrNone])

----------------------------------------------------------------------------
(* The HID transport and the switch behind it.                             *)

AllOff == [p \in {Port1, Port2, Port3} |-> FALSE]

\* A reply pending on a connection: to is the opcode it answers; any says
\* that its bytes are not determined (an unconstrained device), else b0 and
\* b1 are its two leading bytes.
AnyReply(cmd) == [to |-> cmd, any |-> TRUE, b0 |-> 0, b1 |-> 0]

\* The two leading bytes a read of the pending reply e may deliver.
ReplyBytes(e) ==
    IF e.any THEN {[b0 |-> x, b1 |-> y] : x \in RespBytes, y \in RespBytes}
             ELSE {[b0 |-> e.b0, b1 |-> e.b1]}

\* The stub switch that remembers the state last set for each port: its
\* outputs after a report with the opcode cmd.
StubOutputs(out, cmd) ==
    CASE cmd \in {\H11, \H12, \H13} -> [out EXCEPT ![cmd - \H10] = TRUE]
      [] cmd \in {\H01, \H02, \H03} -> [out EXCEPT ![cmd] = FALSE]
      [] cmd = \H1A -> [p \in DOMAIN out |-> TRUE]
      [] cmd = \H0A -> [p \in DOMAIN out |-> FALSE]
      [] OTHER -> out

\* The stub's reply: an actuation is acknowledged by its opcode, a query is
\* answered with the on-code or off-code of the port.
StubReply(out, cmd) ==
    IF cmd \in {\H21, \H22, \H23}
      THEN [to |-> cmd, any |-> FALSE, b0 |-> StatusOK,
            b1 |-> IF out[cmd - \H20] THEN \H10 + (cmd - \H20) ELSE cmd - \H20]
      ELSE [to |-> cmd, any |-> FALSE, b0 |-> StatusOK, b1 |-> cmd]

\* The transport calls of a call, in order, are kept in its record (io): a
\* Close with its outcome, a Write with its outcome and the two leading bytes
\* of the report written, which is the record's buf, and a Read with its
\* outcome and the two leading bytes read.
CloseEvent(ok) == [k |-> "close", ok |-> ok, b0 |-> 0, b1 |-> 0]
WriteEvent(ok, buf) == [k |-> "write", ok |-> ok, b0 |-> buf[0], b1 |-> buf[1]]
ReadEvent(ok, resp) == [k |-> "read", ok |-> ok, b0 |-> resp.b0, b1 |-> resp.b1]

----------------------------------------------------------------------------
(* Initial states.                                                         *)

InitHandles(H, C, outs) ==
    /\ device = [h \in H |-> NIL]
    /\ serial = [h \in H |-> ""]
    /\ lifecycle = [h \in H |-> "Unopened"]
    /\ closeCalls = [h \in H |-> 0]
    /\ call = [c \in C |-> IdleCall]
    /\ wire = [h \in H |-> <<>>]
    /\ outputs \in [H -> outs]
    /\ lastSet = [h \in H |-> [p \in {Port1, Port2, Port3} |-> "unset"]]

\* One caller with one handle: the zero YKUSH3 value (device nil), not yet
\* opened.
Init == InitHandles(OneHandle, OneCaller, {AllOff})

Handles == DOMAIN device
Callers == DOMAIN call

\* Caller c is between calls.
CanCall(c) == call[c].pc \in {"idle", "done"}

----------------------------------------------------------------------------
(* Construction and release.                                               *)

\* NewWithSerial, lines 83-105.  It builds a new YKUSH3 value, so it acts on
\* a handle that has none yet (Unopened) and never on one that was opened
\* before; if hid Init or the open fails the caller is left without one.
NewWithSerial(c, h, s) ==
    /\ CanCall(c)
    /\ lifecycle[h] = "Unopened"
    /\ LET rec == NewCall("NewWithSerial", h, 0, PortOff)
       IN  \/ /\ call' = [call EXCEPT ![c] = ReturnError(rec, ErrInit)]
              /\ UNCHANGED <<device, serial, lifecycle>>
           \/ /\ call' = [call EXCEPT ![c] = ReturnError(rec, ErrOpen)]
              /\ UNCHANGED <<device, serial, lifecycle>>
           \/ /\ call' = [call EXCEPT ![c] = Merge(rec, [pc |-> "done"])]
              /\ device' = [device EXCEPT ![h] = Conn(h)]
              /\ serial' = [serial EXCEPT ![h] = s]
              /\ lifecycle' = [lifecycle EXCEPT ![h] = "Open"]
    /\ UNCHANGED <<closeCalls, wire, outputs, lastSet>>

\* Close without its nil check: hid Close is called whatever y.device is.
CloseHandleUnchecked(rec, closeErr) ==
    [dev |-> NIL, closed |-> 1,
     rec |-> Merge(rec, [pc |-> "done", retErr |-> closeErr,
                         io |-> <<CloseEvent(closeErr = ErrNone)>>])]

\* Close without "y.device = nil": the handle keeps the closed device.
CloseHandleKeepsDevice(rec, closeErr) ==
    IF device[rec.h] # NIL
      THEN [dev |-> device[rec.h], closed |-> 1,
            rec |-> Merge(rec, [pc |-> "done", retErr |-> closeErr,
                                io |-> <<CloseEvent(closeErr = ErrNone)>>])]
      ELSE [dev |-> device[rec.h], closed |-> 0,
            rec |-> Merge(rec, [pc |-> "done", retErr |-> ErrNone])]

\* Close that keeps the connection when hid Close returns an error.
CloseHandleKeepsOnError(rec, closeErr) ==
    IF device[rec.h] # NIL
      THEN [dev |-> IF closeErr = ErrNone THEN NIL ELSE device[rec.h],
            closed |-> IF closeErr = ErrNone THEN 1 ELSE 0,
            rec |-> Merge(rec, [pc |-> "done", retErr |-> closeErr,
                                io |-> <<CloseEvent(closeErr = ErrNone)>>])]
      ELSE [dev |-> device[rec.h], closed |-> 0,
            rec |-> Merge(rec, [pc |-> "done", retErr |-> ErrNone])]

\* Close, lines 108-115; closeErr is the error hid Close returns if called.
CloseHandle(rec, closeErr) ==
    IF device[rec.h] # NIL
      THEN [dev |-> NIL, closed |-> 1,
            rec |-> Merge(rec, [pc |-> "done", retErr |-> closeErr,
                                io |-> <<CloseEvent(closeErr = ErrNone)>>])]
      ELSE [dev |-> device[rec.h], closed |-> 0,
            rec |-> Merge(rec, [pc |-> "done", retErr |-> ErrNone])]

\* Close releasing every handle's connection, not only y's.
CloseEveryHandle(c, h) ==
    /\ CanCall(c)
    /\ \E closeErr \in {ErrNone, ErrClose} :
         LET r == CloseHandle(NewCall("Close", h, 0, PortOff), closeErr)
         IN  /\ call' = [call EXCEPT ![c] = r.rec]
             /\ device' = [g \in Handles |-> IF r.closed = 1 THEN NIL ELSE device[g]]
             /\ closeCalls' = [closeCalls EXCEPT ![h] = @ + r.closed]
             /\ lifecycle' = [g \in Handles |->
                                IF r.closed = 1 /\ device[g] # NIL
                                  THEN "Closed" ELSE lifecycle[g]]
    /\ UNCHANGED <<serial, wire, outputs, lastSet>>

Close(c, h) ==
    /\ CanCall(c)
    /\ \E closeErr \in {ErrNone, ErrClose} :
         LET r == CloseHandle(NewCall("Close", h, 0, PortOff), closeErr)
         IN  /\ call' = [call EXCEPT ![c] = r.rec]
             /\ device' = [device EXCEPT ![h] = r.dev]
             /\ closeCalls' = [closeCalls EXCEPT ![h] = @ + r.closed]
             /\ lifecycle' = [lifecycle EXCEPT ![h] =
                                IF r.closed = 1 THEN "Closed" ELSE @]
    /\ UNCHANGED <<serial, wire, outputs, lastSet>>

\* GetSerial, lines 118-123: the serial number the device reports, which is
\* the one it was opened by if any.
GetSerial(c, h) ==
    /\ CanCall(c)
    /\ LET rec == NewCall("GetSerial", h, 0, PortOff)
       IN  IF device[h] = NIL
             THEN call' = [call EXCEPT ![c] = ReturnError(rec, ErrNotConnected)]
             ELSE \/ call' = [call EXCEPT ![c] = ReturnError(rec, ErrSerial)]
                  \/ \E s \in Serials \ {""} :
                       /\ serial[h] # "" => s = serial[h]
                       /\ call' = [call EXCEPT ![c] =
                              Merge(rec, [pc |-> "done", retSerial |-> s])]
    /\ UNCHANGED <<device, serial, lifecycle, closeCalls, wire, outputs, lastSet>>

----------------------------------------------------------------------------
(* Commands and queries: the step from the call to its first hid Write, or *)
(* to its return if it fails before.                                       *)

Enter(c, rec) ==
    /\ CanCall(c)
    /\ call' = [call EXCEPT ![c] = rec]
    /\ UNCHANGED <<device, serial, lifecycle, closeCalls, wire, outputs, lastSet>>

PortUp(c, h, port) ==
    Enter(c, EnterFn(NewCall("PortUp", h, port, PortOn), "PortUp", port))

PortDown(c, h, port) ==
    Enter(c, EnterFn(NewCall("PortDown", h, port, PortOff), "PortDown", port))

GetPortState(c, h, port) ==
    Enter(c, EnterFn(NewCall("GetPortState", h, port, PortOff), "GetPortState", port))

\* SetPortState with its test inverted: PortDown for PortOn.
SetPortStateInverted(c, h, port, state) ==
    Enter(c, EnterFn(NewCall("SetPortState", h, port, state),
                     IF state THEN "PortDown" ELSE "PortUp", port))

\* SetPortState, lines 237-242.
SetPortState(c, h, port, state) ==
    Enter(c, EnterFn(NewCall("SetPortState", h, port, state),
                     IF state THEN "PortUp" ELSE "PortDown", port))

\* AllPortsUp and AllPortsDown, lines 245-252.
AllPortsUp(c, h) ==
    Enter(c, EnterFn(NewCall("AllPortsUp", h, 0, PortOn), "PortUp", AllPorts))

AllPortsDown(c, h) ==
    Enter(c, EnterFn(NewCall("AllPortsDown", h, 0, PortOff), "PortDown", AllPorts))

\* GetAllPortsState, lines 255-268, up to the first query's write.
GetAllPortsState(c, h) ==
    Enter(c, GetAllPortsStateIter(NewCall("GetAllPortsState", h, 0, PortOff), 1))

----------------------------------------------------------------------------
(* The two transport calls of sendCommand.                                 *)

\* A failing write that sendCommand ignores: it goes on to its read.
hidWriteFailsGoesOn(c) ==
    /\ call[c].pc = "write"
    /\ device[call[c].h] # NIL
    /\ call' = [call EXCEPT ![c] =
           Merge(@, [pc |-> "read",
                     io |-> Append(@.io, WriteEvent(FALSE, @.buf))])]
    /\ UNCHANGED <<device, serial, lifecycle, closeCalls, wire, outputs, lastSet>>

\* A failing write after which the handle drops its connection.
hidWriteFailsDisconnects(c) ==
    /\ call[c].pc = "write"
    /\ device[call[c].h] # NIL
    /\ call' = [call EXCEPT ![c] =
           ReturnError(Merge(@, [io |-> Append(@.io, WriteEvent(FALSE, @.buf))]),
                       ErrSend)]
    /\ device' = [device EXCEPT ![call[c].h] = NIL]
    /\ lifecycle' = [lifecycle EXCEPT ![call[c].h] = "Closed"]
    /\ UNCHANGED <<serial, closeCalls, wire, outputs, lastSet>>

\* y.device.Write(cmdBuf), line 135, failing: sendCommand returns the error.
hidWriteFails(c) ==
    /\ call[c].pc = "write"
    /\ device[call[c].h] # NIL
    /\ call' = [call EXCEPT ![c] =
           ReturnError(Merge(@, [io |-> Append(@.io, WriteEvent(FALSE, @.buf))]),
                       ErrSend)]
    /\ UNCHANGED <<device, serial, lifecycle, closeCalls, wire, outputs, lastSet>>

\* y.device.Write(cmdBuf) succeeding against an unconstrained device.
hidWrite(c) ==
    /\ call[c].pc = "write"
    /\ LET rec == call[c] IN
       IF device[rec.h] = NIL
         THEN /\ call' = [call EXCEPT ![c] = ReturnError(rec, ErrNilDeref)]
              /\ UNCHANGED wire
         ELSE /\ wire' = [wire EXCEPT ![rec.h] = Append(@, AnyReply(rec.buf[0]))]
              /\ call' = [call EXCEPT ![c] =
                     Merge(rec, [pc |-> "read",
                                 io |-> Append(rec.io, WriteEvent(TRUE, rec.buf))])]
    /\ UNCHANGED <<device, serial, lifecycle, closeCalls, outputs, lastSet>>

\* y.device.Write(cmdBuf) succeeding against the stub switch.
hidWriteStub(c) ==
    /\ call[c].pc = "write"
    /\ device[call[c].h] # NIL
    /\ LET rec == call[c]
           out == StubOutputs(outputs[rec.h], rec.buf[0])
       IN  /\ outputs' = [outputs EXCEPT ![rec.h] = out]
           /\ wire' = [wire EXCEPT ![rec.h] = Append(@, StubReply(out, rec.buf[0]))]
           /\ call' = [call EXCEPT ![c] =
                  Merge(rec, [pc |-> "read",
                              io |-> Append(rec.io, WriteEvent(TRUE, rec.buf))])]
    /\ UNCHANGED <<device, serial, lifecycle, closeCalls, lastSet>>

\* A failing read after which sendCommand writes its report again.
hidReadFailsRetries(c) ==
    /\ call[c].pc = "read"
    /\ wire[call[c].h] # <<>>
    /\ wire' = [wire EXCEPT ![call[c].h] = Tail(@)]
    /\ call' = [call EXCEPT ![c] =
           Merge(@, [pc |-> "write",
                     io |-> Append(@.io, ReadEvent(FALSE, @.resp))])]
    /\ UNCHANGED <<device, serial, lifecycle, closeCalls, outputs, lastSet>>

\* y.device.Read(respBuf), line 140, failing: the pending reply is lost and
\* sendCommand returns the error.
hidReadFails(c) ==
    /\ call[c].pc = "read"
    /\ wire[call[c].h] # <<>>
    /\ wire' = [wire EXCEPT ![call[c].h] = Tail(@)]
    /\ call' = [call EXCEPT ![c] =
           ReturnError(Merge(@, [io |-> Append(@.io, ReadEvent(FALSE, @.resp))]),
                       ErrRead)]
    /\ UNCHANGED <<device, serial, lifecycle, closeCalls, outputs, lastSet>>

\* y.device.Read(respBuf) succeeding: the oldest pending reply is read and
\* the caller validates or decodes it, which ends the call or, in
\* GetAllPortsState, leads to the next query's write.
ReadStep(c) ==
    /\ call[c].pc = "read"
    /\ wire[call[c].h] # <<>>
    /\ \E resp \in ReplyBytes(Head(wire[call[c].h])) :
         /\ wire' = [wire EXCEPT ![call[c].h] = Tail(@)]
         /\ call' = [call EXCEPT ![c] =
                AfterExchange(Merge(@, [io |-> Append(@.io, ReadEvent(TRUE, resp))]),
                              resp)]
    /\ UNCHANGED <<device, serial, lifecycle, closeCalls, outputs>>

hidRead(c) == ReadStep(c) /\ UNCHANGED lastSet

\* What lastSet[h] becomes when the call rec has returned: a PortUp or
\* PortDown that returned nil set its port, or all three for AllPorts.
Recorded(last, rec) ==
    IF rec.pc = "done" /\ rec.retErr = ErrNone /\ rec.fn \in {"PortUp", "PortDown"}
      THEN [p \in DOMAIN last |->
              IF rec.fnPort \in {p, AllPorts}
                THEN (IF rec.fn = "PortUp" THEN "on" ELSE "off")
                ELSE last[p]]
      ELSE last

\* The same read against the stub switch, where what was set is recorded.
hidReadStub(c) ==
    /\ ReadStep(c)
    /\ lastSet' = [lastSet EXCEPT ![call[c].h] = Recorded(@, call'[c])]

----------------------------------------------------------------------------
(* Specifications.                                                         *)

\* One caller, one handle, a transport that may fail and a device that may
\* answer anything.
Next ==
    \/ \E c \in Callers, h \in Handles, s \in Serials : NewWithSerial(c, h, s)
    \/ \E c \in Callers, h \in Handles : Close(c, h)
    \/ \E c \in Callers, h \in Handles : GetSerial(c, h)
    \/ \E c \in Callers, h \in Handles, port \in PortArgs : PortUp(c, h, port)
    \/ \E c \in Callers, h \in Handles, port \in PortArgs : PortDown(c, h, port)
    \/ \E c \in Callers, h \in Handles, port \in PortArgs : GetPortState(c, h, port)
    \/ \E c \in Callers, h \in Handles, port \in PortArgs, state \in BOOLEAN :
         SetPortState(c, h, port, state)
    \/ \E c \in Callers, h \in Handles : AllPortsUp(c, h)
    \/ \E c \in Callers, h \in Handles : AllPortsDown(c, h)
    \/ \E c \in Callers, h \in Handles : GetAllPortsState(c, h)
    \/ \E c \in Callers : hidWriteFails(c)
    \/ \E c \in Callers : hidWrite(c)
    \/ \E c \in Callers : hidReadFails(c)
    \/ \E c \in Callers : hidRead(c)

Spec == Init /\ [][Next]_vars

\* The same with a transport that completes, with success or with an error,
\* every Write and Read it is given: a transport call that is pending is
\* eventually taken.  Nothing obliges the caller to make a call.
Transport(c) == hidWriteFails(c) \/ hidWrite(c) \/ hidReadFails(c) \/ hidRead(c)

SpecLive == Init /\ [][Next]_vars /\ \A c \in OneCaller : WF_vars(Transport(c))

\* One caller, one handle, a transport that does not fail and the stub
\* switch that remembers the last state set, starting from any outputs.
InitStub == InitHandles(OneHandle, OneCaller, [{Port1, Port2, Port3} -> BOOLEAN])

NextStub ==
    \/ \E c \in Callers, h \in Handles, s \in Serials : NewWithSerial(c, h, s)
    \/ \E c \in Callers, h \in Handles : Close(c, h)
    \/ \E c \in Callers, h \in Handles : GetSerial(c, h)
    \/ \E c \in Callers, h \in Handles, port \in PortArgs : PortUp(c, h, port)
    \/ \E c \in Callers, h \in Handles, port \in PortArgs : PortDown(c, h, port)
    \/ \E c \in Callers, h \in Handles, port \in PortArgs : GetPortState(c, h, port)
    \/ \E c \in Callers, h \in Handles, port \in PortArgs, state \in BOOLEAN :
         SetPortState(c, h, port, state)
    \/ \E c \in Callers, h \in Handles : AllPortsUp(c, h)
    \/ \E c \in Callers, h \in Handles : AllPortsDown(c, h)
    \/ \E c \in Callers, h \in Handles : GetAllPortsState(c, h)
    \/ \E c \in Callers : hidWriteStub(c)
    \/ \E c \in Callers : hidReadStub(c)

SpecStub == InitStub /\ [][NextStub]_vars

\* Two callers sharing one handle with nothing that serializes their calls,
\* as the package has no lock: the steps of their calls interleave freely.
\* The transport may fail and the device is the stub switch, whose replies
\* are determined by the report they answer.
TwoCallers == {1, 2}
SharedPorts == {Port1, Port2}

InitShared == InitHandles(OneHandle, TwoCallers, {AllOff})

NextShared ==
    \/ \E c \in Callers, h \in Handles, s \in Serials : NewWithSerial(c, h, s)
    \/ \E c \in Callers, h \in Handles, port \in SharedPorts : PortUp(c, h, port)
    \/ \E c \in Callers, h \in Handles, port \in SharedPorts : GetPortState(c, h, port)
    \/ \E c \in Callers : hidWriteFails(c)
    \/ \E c \in Callers : hidWriteStub(c)
    \/ \E c \in Callers : hidReadFails(c)
    \/ \E c \in Callers : hidReadStub(c)

SpecShared == InitShared /\ [][NextShared]_vars

\* Two handles, each with its own connection and its own caller, whose
\* steps interleave freely; the transport may fail and each device is a
\* stub switch.
TwoHandles == {1, 2}

\* Handle 1 is opened as the first device found, handle 2 by serial number.
SerialOf(h) == IF h = 1 THEN "" ELSE "YK12345"

InitTwoHandles == InitHandles(TwoHandles, TwoCallers, {AllOff})

NextTwoHandles ==
    \/ \E c \in Callers : \E h \in {c} : NewWithSerial(c, h, SerialOf(h))
    \/ \E c \in Callers : \E h \in {c} : Close(c, h)
    \/ \E c \in Callers : \E h \in {c}, port \in SharedPorts : PortUp(c, h, port)
    \/ \E c \in Callers : \E h \in {c}, port \in SharedPorts : GetPortState(c, h, port)
    \/ \E c \in Callers : hidWriteFails(c)
    \/ \E c \in Callers : hidWriteStub(c)
    \/ \E c \in Callers : hidReadFails(c)
    \/ \E c \in Callers : hidReadStub(c)

SpecTwoHandles == InitTwoHandles /\ [][NextTwoHandles]_vars

----------------------------------------------------------------------------
(* Properties.                                                             *)

Last(seq) == seq[Len(seq)]

\* The events of kind k in the transport calls io.
EventsOf(io, k) == SelectSeq(io, LAMBDA e : e.k = k)

\* The operations that are commands or queries, and those with a port.
CommandOps ==
    {"PortUp", "PortDown", "SetPortState", "AllPortsUp", "AllPortsDown",
     "GetPortState", "GetAllPortsState", "GetSerial"}
ActuationPorts == {Port1, Port2, Port3, AllPorts}
QueryPorts == {Port1, Port2, Port3}

\* The encoding table of the protocol, as a set of <<operation, port, byte>>.
EncodingTable ==
    {<<"PortUp", 1, 17>>, <<"PortUp", 2, 18>>, <<"PortUp", 3, 19>>, <<"PortUp", 10, 26>>,
     <<"PortDown", 1, 1>>, <<"PortDown", 2, 2>>, <<"PortDown", 3, 3>>, <<"PortDown", 10, 10>>,
     <<"GetPortState", 1, 33>>, <<"GetPortState", 2, 34>>, <<"GetPortState", 3, 35>>}

\* The call r is a PortUp, PortDown or GetPortState call whose port is valid.
ValidPortCall(r) ==
    \/ r.op \in {"PortUp", "PortDown"} /\ r.port \in ActuationPorts
    \/ r.op = "GetPortState" /\ r.port \in QueryPorts

\* The call r is one whose port argument is not valid for its operation.
InvalidPortCall(r) ==
    \/ r.op \in {"PortUp", "PortDown", "SetPortState"} /\ r.port \notin ActuationPorts
    \/ r.op = "GetPortState" /\ r.port \notin QueryPorts

\* C1: PortUp(p) and PortDown(p) for p in {Port1, Port2, Port3, AllPorts} and
\* GetPortState(p) for p in {Port1, Port2, Port3} on an Open handle go on to
\* write, and the report they hand to the transport is 64 bytes long, has
\* the table's byte for (operation, p) as byte 0, the same byte as byte 1 and
\* zero in bytes 2..63; it is the only report they write.
C1_EncodingTable ==
    \A c \in Callers :
      LET r == call[c] IN
      (ValidPortCall(r) /\ lifecycle[r.h] = "Open") =>
        /\ r.pc \in {"write", "read", "done"}
        /\ DOMAIN r.buf = 0..63
        /\ <<r.op, r.port, r.buf[0]>> \in EncodingTable
        /\ r.buf[1] = r.buf[0]
        /\ \A i \in 2..63 : r.buf[i] = 0
        /\ r.pc = "write" => r.io = <<>>
        /\ r.pc \in {"read", "done"} =>
             /\ Len(EventsOf(r.io, "write")) = 1
             /\ r.io[1].k = "write"
             /\ r.io[1].b0 = r.buf[0] /\ r.io[1].b1 = r.buf[1]

\* A PortUp(AllPorts) has written its report, 0x1A 0x1A 0 ... 0.
C1_Witness ==
    \E c \in Callers :
      /\ call[c].op = "PortUp" /\ call[c].port = AllPorts
      /\ call[c].pc = "read"
      /\ call[c].io = <<WriteEvent(TRUE, call[c].buf)>>
      /\ call[c].buf[0] = 26 /\ call[c].buf[1] = 26 /\ call[c].buf[63] = 0

\* C2: PortUp, PortDown and SetPortState with a port outside {Port1, Port2,
\* Port3, AllPorts}, and GetPortState with a port outside {Port1, Port2,
\* Port3}, return the invalid-port error without any transport call, whether
\* the handle is Unopened, Open or Closed.
C2_InvalidPortNoIO ==
    \A c \in Callers :
      LET r == call[c] IN
      InvalidPortCall(r) =>
        /\ r.pc = "done"
        /\ r.retErr = IF r.op = "GetPortState" THEN ErrInvalidQueryPort
                                               ELSE ErrInvalidPort
        /\ r.io = <<>>

\* GetPortState(AllPorts) on an Open handle has returned the argument error.
C2_Witness ==
    \E c \in Callers :
      /\ call[c].op = "GetPortState" /\ call[c].port = AllPorts
      /\ lifecycle[call[c].h] = "Open"
      /\ call[c].pc = "done" /\ call[c].retErr = ErrInvalidQueryPort
      /\ call[c].io = <<>>

\* C3 as stated: every command or query on a handle that is not Open fails
\* with the not-connected error and no transport call, for any argument.
C3_Original ==
    \A c \in Callers :
      LET r == call[c] IN
      (r.op \in CommandOps /\ lifecycle[r.h] # "Open") =>
        /\ r.pc = "done"
        /\ r.retErr = ErrNotConnected
        /\ r.io = <<>>

\* C3, amended: every command or query on a handle that is not Open fails
\* without any transport call; the error is the not-connected error (wrapped
\* with the port by GetAllPortsState), except that a call with an invalid
\* port fails with the invalid-port error, the port being checked first.
C3_NotConnected ==
    \A c \in Callers :
      LET r == call[c] IN
      (r.op \in CommandOps /\ lifecycle[r.h] # "Open") =>
        /\ r.pc = "done"
        /\ r.io = <<>>
        /\ r.retErr = IF InvalidPortCall(r)
                        THEN (IF r.op = "GetPortState" THEN ErrInvalidQueryPort
                                                       ELSE ErrInvalidPort)
                        ELSE ErrNotConnected
        /\ r.retWrapped = (r.op = "GetAllPortsState")

\* PortUp(Port1) on a Closed handle has failed as not connected.
C3_Witness ==
    \E c \in Callers :
      /\ call[c].op = "PortUp" /\ call[c].port = Port1
      /\ lifecycle[call[c].h] = "Closed"
      /\ call[c].pc = "done" /\ call[c].retErr = ErrNotConnected
      /\ call[c].io = <<>>

\* The call r has returned after a read that succeeded, its last transport
\* call.
ReadAndReturned(r) ==
    /\ r.pc = "done"
    /\ r.io # <<>>
    /\ Last(r.io).k = "read" /\ Last(r.io).ok

\* C4 as stated: for a response with byte 0 = 0x01 to a Port1 query,
\* GetPortState(Port1) returns PortOff if byte 1 is 0x21 and PortOn if byte 1
\* is 0x11.
C4_Original ==
    \A c \in Callers :
      LET r == call[c] IN
      (r.op = "GetPortState" /\ r.port = Port1 /\ ReadAndReturned(r)
         /\ Last(r.io).b0 = 1) =>
        /\ Last(r.io).b1 = 33 => (r.retErr = ErrNone /\ r.retState = PortOff)
        /\ Last(r.io).b1 = 17 => (r.retErr = ErrNone /\ r.retState = PortOn)

\* C4, amended: for a response with byte 0 = 0x01 to a Port1 query,
\* GetPortState(Port1) returns PortOff if byte 1 is 0x01 and PortOn if byte 1
\* is 0x11; byte 1 = 0x21 is answered with the unexpected-state error.
C4_Port1Decoding ==
    \A c \in Callers :
      LET r == call[c] IN
      (r.op = "GetPortState" /\ r.port = Port1 /\ ReadAndReturned(r)
         /\ Last(r.io).b0 = 1) =>
        /\ Last(r.io).b1 = 1 => (r.retErr = ErrNone /\ r.retState = PortOff)
        /\ Last(r.io).b1 = 17 => (r.retErr = ErrNone /\ r.retState = PortOn)
        /\ Last(r.io).b1 = 33 => r.retErr = ErrUnexpectedState

\* GetPortState(Port1) has read 0x01 0x01 and returned PortOff without error.
C4_Witness ==
    \E c \in Callers :
      /\ call[c].op = "GetPortState" /\ call[c].port = Port1
      /\ ReadAndReturned(call[c])
      /\ Last(call[c].io).b0 = 1 /\ Last(call[c].io).b1 = 1
      /\ call[c].retErr = ErrNone /\ call[c].retState = PortOff

\* C5: whatever port in {Port1, Port2, Port3} GetPortState queried, a
\* response whose byte 0 is not 0x01 gives the command-failed error; with
\* byte 0 = 0x01, byte 1 in {0x01, 0x02, 0x03} gives PortOff, byte 1 in
\* {0x11, 0x12, 0x13} gives PortOn and any other byte 1 the unexpected-state
\* error.
C5_DecodeTable ==
    \A c \in Callers :
      LET r == call[c] IN
      (r.op = "GetPortState" /\ r.port \in QueryPorts /\ ReadAndReturned(r)) =>
        LET b0 == Last(r.io).b0
            b1 == Last(r.io).b1
        IN  /\ b0 # 1 => r.retErr = ErrCommandFailed
            /\ (b0 = 1 /\ b1 \in {1, 2, 3}) =>
                 (r.retErr = ErrNone /\ r.retState = PortOff)
            /\ (b0 = 1 /\ b1 \in {17, 18, 19}) =>
                 (r.retErr = ErrNone /\ r.retState = PortOn)
            /\ (b0 = 1 /\ b1 \notin {1, 2, 3, 17, 18, 19}) =>
                 r.retErr = ErrUnexpectedState

\* GetPortState(Port2) has read 0x01 0x13, the on code of Port3, and
\* returned PortOn.
C5_Witness ==
    \E c \in Callers :
      /\ call[c].op = "GetPortState" /\ call[c].port = Port2
      /\ ReadAndReturned(call[c])
      /\ Last(call[c].io).b0 = 1 /\ Last(call[c].io).b1 = 19
      /\ call[c].retErr = ErrNone /\ call[c].retState = PortOn

\* C6: PortUp(p) and PortDown(p), p in {Port1, Port2, Port3, AllPorts}, which
\* have read a response return nil if and only if its byte 0 is 0x01 and its
\* byte 1 is byte 0 of the report they wrote; for every other response they
\* return the unexpected-response error.
C6_AckIffEcho ==
    \A c \in Callers :
      LET r == call[c] IN
      (r.op \in {"PortUp", "PortDown"} /\ r.port \in ActuationPorts
         /\ ReadAndReturned(r)) =>
        LET acked == Last(r.io).b0 = 1 /\ Last(r.io).b1 = r.io[1].b0
        IN  /\ r.io[1].k = "write"
            /\ acked => r.retErr = ErrNone
            /\ ~acked => r.retErr = ErrUnexpectedResponse

\* PortUp(AllPorts) has read status 0x00 with the echo 0x1A and returned the
\* unexpected-response error.
C6_Witness ==
    \E c \in Callers :
      /\ call[c].op = "PortUp" /\ call[c].port = AllPorts
      /\ ReadAndReturned(call[c])
      /\ Last(call[c].io).b0 = 0 /\ Last(call[c].io).b1 = 26
      /\ call[c].retErr = ErrUnexpectedResponse

\* C7: a Close of a handle whose device is nil (Closed, or never opened)
\* returns nil, calls no transport function and changes nothing: the handle
\* stays as it was, so that Close; Close ends in the state of a single Close.
C7_CloseIdempotent ==
    [][\A c \in Callers :
         (CanCall(c) /\ call'[c].op = "Close" /\ call'[c].pc = "done"
            /\ device[call'[c].h] = NIL) =>
           /\ call'[c].retErr = ErrNone
           /\ call'[c].io = <<>>
           /\ UNCHANGED <<device, serial, lifecycle, closeCalls, wire, outputs>>
           /\ device'[call'[c].h] = NIL]_vars

\* A second Close has returned nil on a Closed handle without calling the
\* transport: the connection was closed once, by the first.
C7_Witness ==
    \E c \in Callers :
      /\ call[c].op = "Close" /\ call[c].pc = "done"
      /\ call[c].io = <<>> /\ call[c].retErr = ErrNone
      /\ lifecycle[call[c].h] = "Closed" /\ device[call[c].h] = NIL
      /\ closeCalls[call[c].h] = 1

\* C8: a handle is Open exactly while it owns a connection; a step takes it
\* from Unopened to Open or from Open to Closed or leaves it where it is, so
\* that a Closed handle stays Closed, and hid Close is called at most once on
\* its connection (once when the handle is Closed, never before).
C8_Lifecycle ==
    [][\A h \in Handles :
         /\ (lifecycle[h] = "Open") = (device[h] # NIL)
         /\ (lifecycle'[h] = "Open") = (device'[h] # NIL)
         /\ lifecycle[h] = "Unopened" => lifecycle'[h] \in {"Unopened", "Open"}
         /\ lifecycle[h] = "Closed" => lifecycle'[h] = "Closed"
         /\ lifecycle[h] = "Open" => lifecycle'[h] \in {"Open", "Closed"}
         /\ closeCalls[h] <= 1 /\ closeCalls'[h] <= 1
         /\ closeCalls'[h] = (IF lifecycle'[h] = "Closed" THEN 1 ELSE 0)]_vars

\* The handle was opened and closed, its connection closed once, and a
\* GetSerial after that has found it not connected.
C8_Witness ==
    \E c \in Callers :
      /\ lifecycle[call[c].h] = "Closed" /\ closeCalls[call[c].h] = 1
      /\ device[call[c].h] = NIL
      /\ call[c].op = "GetSerial" /\ call[c].pc = "done"
      /\ call[c].retErr = ErrNotConnected

\* C9: against the stub switch, a GetPortState(p) on the Open handle returns,
\* without error, the state the last successful PortUp or PortDown covering
\* p (directly, through SetPortState, or with AllPorts) set p to.
C9_QueryReturnsLastSet ==
    \A c \in Callers :
      LET r == call[c] IN
      (r.op = "GetPortState" /\ r.port \in QueryPorts /\ r.pc = "done"
         /\ lifecycle[r.h] = "Open" /\ lastSet[r.h][r.port] # "unset") =>
        /\ r.retErr = ErrNone
        /\ r.retState = (IF lastSet[r.h][r.port] = "on" THEN PortOn ELSE PortOff)

\* Port2 was last set on and Port1 last set off, and GetPortState(Port2) has
\* returned PortOn.
C9_Witness ==
    \E c \in Callers :
      /\ call[c].op = "GetPortState" /\ call[c].port = Port2
      /\ call[c].pc = "done" /\ call[c].retErr = ErrNone
      /\ call[c].retState = PortOn
      /\ lastSet[call[c].h][Port2] = "on"
      /\ lastSet[call[c].h][Port1] = "off"

\* The exchanges of the transport calls io: exchange i is the i-th write and
\* what followed it.  It failed if its write failed, its read failed, or the
\* bytes read do not decode to a port state.
NumExchanges(io) == Len(EventsOf(io, "write"))
ExchangeOK(io, i) ==
    /\ 2 * i <= Len(io)
    /\ io[2 * i - 1].k = "write" /\ io[2 * i - 1].ok
    /\ io[2 * i].k = "read" /\ io[2 * i].ok
    /\ io[2 * i].b0 = 1 /\ io[2 * i].b1 \in {1, 2, 3, 17, 18, 19}

\* C10: a GetAllPortsState whose query of some port fails (not connected,
\* write error, read error or protocol error) returns an error and the nil
\* map, and the failing query is its last activity: the queries before it
\* succeeded, in the order 0x21, 0x22, 0x23, and none follows it.
C10_NoPartialMap ==
    \A c \in Callers :
      LET r == call[c]
          n == NumExchanges(r.io)
          failed == n = 0 \/ ~ExchangeOK(r.io, n)
      IN
      (r.op = "GetAllPortsState" /\ r.pc = "done") =>
        /\ n \in 0..3
        /\ \A i \in 1..n : r.io[2 * i - 1].k = "write" /\ r.io[2 * i - 1].b0 = 32 + i
        /\ \A i \in 1..(n - 1) : ExchangeOK(r.io, i)
        /\ Len(r.io) \in {2 * n - 1, 2 * n}
        /\ failed => /\ r.retErr # ErrNone
                     /\ r.retNilMap /\ r.retStates = EmptyMap
        /\ r.retErr # ErrNone => failed
        /\ r.retErr = ErrNone => (n = 3 /\ ~r.retNilMap)

\* GetAllPortsState has failed in its query of Port2, after reading the state
\* of Port1, and has returned the nil map.
C10_Witness ==
    \E c \in Callers :
      /\ call[c].op = "GetAllPortsState" /\ call[c].pc = "done"
      /\ NumExchanges(call[c].io) = 2
      /\ DOMAIN call[c].states = {Port1}
      /\ call[c].retErr # ErrNone
      /\ call[c].retNilMap /\ call[c].retStates = EmptyMap

\* The port state the two leading bytes b0, b1 of a response stand for.
StateOfBytes(b0, b1) == b0 = 1 /\ b1 \in {17, 18, 19}

\* C11: a GetAllPortsState that returns without error has made exactly three
\* exchanges, each a write followed by its read before the next write, with
\* the opcodes 0x21, 0x22, 0x23 in this order, and returns a map whose keys
\* are Port1, Port2, Port3, each with the state decoded from the response of
\* its own exchange.
C11_ThreeExchangesInOrder ==
    \A c \in Callers :
      LET r == call[c] IN
      (r.op = "GetAllPortsState" /\ r.pc = "done" /\ r.retErr = ErrNone) =>
        /\ lifecycle[r.h] = "Open"
        /\ Len(r.io) = 6
        /\ \A i \in 1..3 :
             /\ r.io[2 * i - 1].k = "write" /\ r.io[2 * i - 1].ok
             /\ r.io[2 * i - 1].b0 = 32 + i /\ r.io[2 * i - 1].b1 = 32 + i
             /\ r.io[2 * i].k = "read" /\ r.io[2 * i].ok
             /\ ExchangeOK(r.io, i)
        /\ ~r.retNilMap
        /\ DOMAIN r.retStates = {Port1, Port2, Port3}
        /\ \A i \in 1..3 :
             r.retStates[i] = StateOfBytes(r.io[2 * i].b0, r.io[2 * i].b1)

\* GetAllPortsState has returned Port1 on, Port2 off, Port3 on, from the
\* responses 0x13, 0x01, 0x12.
C11_Witness ==
    \E c \in Callers :
      /\ call[c].op = "GetAllPortsState" /\ call[c].pc = "done"
      /\ call[c].retErr = ErrNone /\ ~call[c].retNilMap
      /\ Len(call[c].io) = 6
      /\ call[c].io[2].b1 = 19 /\ call[c].io[4].b1 = 1 /\ call[c].io[6].b1 = 18
      /\ call[c].retStates[Port1] = PortOn
      /\ call[c].retStates[Port2] = PortOff
      /\ call[c].retStates[Port3] = PortOn

\* The operations that delegate to PortUp or PortDown.
WrapperOps == {"SetPortState", "AllPortsUp", "AllPortsDown"}

\* The record of the direct call a wrapper's call r stands for: PortUp(p) for
\* SetPortState(p, PortOn), PortDown(p) for SetPortState(p, PortOff),
\* PortUp(AllPorts) for AllPortsUp, PortDown(AllPorts) for AllPortsDown; it is
\* r with its operation and arguments replaced.
Direct(r) ==
    CASE r.op = "SetPortState" ->
           Merge(r, [op |-> IF r.state THEN "PortUp" ELSE "PortDown"])
      [] r.op = "AllPortsUp" ->
           Merge(r, [op |-> "PortUp", port |-> AllPorts, state |-> PortOn])
      [] r.op = "AllPortsDown" ->
           Merge(r, [op |-> "PortDown", port |-> AllPorts, state |-> PortOff])
      [] OTHER -> r

\* What the direct call d is after the transport call ev, the last of io.
DirectAfter(d, io, ev) ==
    LET e == Merge(d, [io |-> io]) IN
    CASE ev.k = "write" /\ ev.ok -> Merge(e, [pc |-> "read"])
      [] ev.k = "write" /\ ~ev.ok -> ReturnError(e, ErrSend)
      [] ev.k = "read" /\ ev.ok -> AfterExchange(e, [b0 |-> ev.b0, b1 |-> ev.b1])
      [] ev.k = "read" /\ ~ev.ok -> ReturnError(e, ErrRead)

\* C12: SetPortState(p, PortOn) behaves as PortUp(p), SetPortState(p, PortOff)
\* as PortDown(p), AllPortsUp and AllPortsDown as PortUp(AllPorts) and
\* PortDown(AllPorts): at its entry the wrapper's call is, but for its name
\* and arguments, in the state the direct call enters from the same handle
\* state; each transport call it makes is the one the direct call makes
\* (same report, same pending reply), and with the same outcome of that call
\* it goes on or returns as the direct call does, leaving the handle as it
\* was.
C12_Delegation ==
    [][\A c \in Callers :
         LET r == call[c]
             r2 == call'[c]
             d2 == Direct(r2)
         IN  (r2.op \in WrapperOps /\ r2 # r) =>
               /\ UNCHANGED <<device, serial, lifecycle, closeCalls>>
               /\ IF CanCall(c)
                    THEN /\ d2 = EnterFn(NewCall(d2.op, d2.h, d2.port, d2.state),
                                         d2.op, d2.port)
                         /\ UNCHANGED wire
                    ELSE LET ev == Last(r2.io)
                             d == Direct(r)
                         IN  /\ r2.io = Append(r.io, ev)
                             /\ d2 = DirectAfter(d, r2.io, ev)
                             /\ ev.k = "write" =>
                                  /\ ev.b0 = d.buf[0] /\ ev.b1 = d.buf[1]
                                  /\ d.buf = Report(d.cmd, d.cmd)
                                  /\ <<d.op, d.port, d.cmd>> \in EncodingTable
                                  /\ ev.ok => wire'[d.h] = Append(wire[d.h], AnyReply(d.cmd))
                                  /\ ~ev.ok => UNCHANGED wire
                             /\ ev.k = "read" =>
                                  /\ wire'[d.h] = Tail(wire[d.h])
                                  /\ Head(wire[d.h]).to = d.cmd]_vars

\* SetPortState(Port2, PortOn) has written 0x12, read its acknowledgement and
\* returned nil, as PortUp(Port2) does.
C12_Witness ==
    \E c \in Callers :
      /\ call[c].op = "SetPortState" /\ call[c].port = Port2 /\ call[c].state = PortOn
      /\ call[c].pc = "done" /\ call[c].retErr = ErrNone
      /\ call[c].io = <<[k |-> "write", ok |-> TRUE, b0 |-> 18, b1 |-> 18],
                        [k |-> "read", ok |-> TRUE, b0 |-> 1, b1 |-> 18]>>


\* The errors PortUp, PortDown and GetPortState return from validating or
\* decoding a response.
ResponseErrors == {ErrUnexpectedResponse, ErrCommandFailed, ErrUnexpectedState}

\* C13: a PortUp, PortDown or GetPortState with a valid port on an Open
\* handle makes no transport call before its write, exactly one write, and
\* at most one read, which follows a successful write; a failed write ends
\* the call with the send error and no read, a failed read ends it with the
\* read error, neither is retried, and the call returns nil or a response
\* error only after a successful read.
C13_SingleExchange ==
    \A c \in Callers :
      LET r == call[c] IN
      (ValidPortCall(r) /\ lifecycle[r.h] = "Open") =>
        /\ r.pc = "write" => r.io = <<>>
        /\ r.pc = "read" => r.io = <<WriteEvent(TRUE, r.buf)>>
        /\ r.pc = "done" =>
             /\ Len(r.io) \in {1, 2}
             /\ r.io[1].k = "write"
             /\ Len(r.io) = 1 <=> ~r.io[1].ok
             /\ Len(r.io) = 1 <=> r.retErr = ErrSend
             /\ Len(r.io) = 2 => r.io[2].k = "read"
             /\ (Len(r.io) = 2 /\ ~r.io[2].ok) <=> r.retErr = ErrRead
             /\ r.retErr \in {ErrSend, ErrRead, ErrNone} \cup ResponseErrors
             /\ r.retErr \in {ErrNone} \cup ResponseErrors =>
                  Len(r.io) = 2 /\ r.io[2].ok

\* A PortDown(Port3) whose write succeeded and whose read failed has returned
\* the read error after those two transport calls.
C13_Witness ==
    \E c \in Callers :
      /\ call[c].op = "PortDown" /\ call[c].port = Port3
      /\ lifecycle[call[c].h] = "Open"
      /\ call[c].pc = "done" /\ call[c].retErr = ErrRead
      /\ Len(call[c].io) = 2
      /\ call[c].io[1].k = "write" /\ call[c].io[1].ok
      /\ call[c].io[2].k = "read" /\ ~call[c].io[2].ok


\* The errors of a failed exchange: transport errors and response errors.
ExchangeErrors == {ErrSend, ErrRead} \cup ResponseErrors

\* C14: a step of a command or query (PortUp, PortDown, SetPortState,
\* AllPortsUp, AllPortsDown, GetPortState, GetAllPortsState, GetSerial),
\* whether it enters, writes, reads, succeeds or fails, leaves the handle's
\* connection, lifecycle state and cached serial as they were; a handle
\* becomes Closed only in a step of Close; and on an Open handle a command
\* with a valid port that follows a failed exchange goes on to its write.
C14_CommandsKeepHandle ==
    [][/\ (\A c \in Callers : call'[c] # call[c] => call'[c].op \in CommandOps)
            => UNCHANGED <<device, serial, lifecycle, closeCalls>>
       /\ \A h \in Handles :
            (lifecycle'[h] = "Closed" /\ lifecycle[h] # "Closed") =>
              \E c \in Callers :
                /\ CanCall(c) /\ call'[c].op = "Close" /\ call'[c].h = h
                /\ call'[c].pc = "done"
       /\ \A c \in Callers :
            (/\ call[c].pc = "done" /\ call[c].retErr \in ExchangeErrors
             /\ call'[c] # call[c]
             /\ ValidPortCall(call'[c])
             /\ lifecycle[call'[c].h] = "Open")
              => /\ call'[c].pc = "write"
                 /\ device'[call'[c].h] # NIL
                 /\ lifecycle'[call'[c].h] = "Open"]_vars

\* A GetPortState on a handle opened by serial has failed in its read, and
\* the handle is still Open, connected and holds its serial.
C14_Witness ==
    \E c \in Callers :
      /\ call[c].op = "GetPortState" /\ call[c].pc = "done"
      /\ call[c].retErr = ErrRead
      /\ Len(call[c].io) = 2
      /\ lifecycle[call[c].h] = "Open"
      /\ device[call[c].h] # NIL
      /\ serial[call[c].h] = "YK12345"


\* The callers with a call in flight on handle h: entered, not yet returned.
InFlightOn(h) == {c \in Callers : call[c].h = h /\ call[c].pc \in {"write", "read"}}

\* At most one call is in flight on h and the replies pending on h's
\* connection are those it waits for: the reply to its report if it has
\* written, none otherwise.
OneInFlight(h) ==
    /\ Cardinality(InFlightOn(h)) <= 1
    /\ \A c \in InFlightOn(h) :
         IF call[c].pc = "read"
           THEN Len(wire[h]) = 1 /\ wire[h][1].to = call[c].buf[0]
           ELSE wire[h] = <<>>
    /\ InFlightOn(h) = {} => wire[h] = <<>>

\* C15: nothing in the package orders the calls of two callers on one
\* handle, but as long as the callers keep at most one call in flight on the
\* handle, every read returns the reply to the write just before it: a step
\* from a state where at most one call is in flight and only its reply is
\* pending, to a state where at most one call is in flight, leaves only that
\* call's reply pending, and if the step is a read, the reply it takes is the
\* one to the reader's own report, whose bytes the reader gets.
C15_SerializedReadsOwnReply ==
    [][\A h \in Handles :
         (OneInFlight(h) /\ Cardinality(InFlightOn(h))' <= 1) =>
           /\ OneInFlight(h)'
           /\ \A c \in Callers :
                (call[c].h = h /\ call[c].pc = "read" /\ call'[c] # call[c]) =>
                  /\ Head(wire[h]).to = call[c].buf[0]
                  /\ Last(call'[c].io).k = "read"
                  /\ Last(call'[c].io).ok =>
                       /\ Last(call'[c].io).b0 = Head(wire[h]).b0
                       /\ Last(call'[c].io).b1 = Head(wire[h]).b1]_vars

\* Without serialization the calls interleave: caller 1's PortUp(Port1) and
\* caller 2's GetPortState(Port2) both wrote before either read, and each
\* then read the reply to the other's report: PortUp got the state reply
\* 0x01 0x02 and failed, GetPortState got the acknowledgement 0x01 0x11 and
\* reported a state for Port2 that is Port1's acknowledgement.
C15_Witness ==
    /\ call[1].op = "PortUp" /\ call[1].port = Port1 /\ call[1].pc = "done"
    /\ call[2].op = "GetPortState" /\ call[2].port = Port2 /\ call[2].pc = "done"
    /\ call[1].h = call[2].h
    /\ call[1].io = <<[k |-> "write", ok |-> TRUE, b0 |-> 17, b1 |-> 17],
                      [k |-> "read", ok |-> TRUE, b0 |-> 1, b1 |-> 2]>>
    /\ call[1].retErr = ErrUnexpectedResponse
    /\ call[2].io = <<[k |-> "write", ok |-> TRUE, b0 |-> 34, b1 |-> 34],
                      [k |-> "read", ok |-> TRUE, b0 |-> 1, b1 |-> 17]>>
    /\ call[2].retErr = ErrNone /\ call[2].retState = PortOn


\* What belongs to handle h: its connection, cached serial, lifecycle state,
\* and its connection's side: the closes made on it, the replies pending on
\* it and the device behind it.
HandleState(h) ==
    <<device[h], serial[h], lifecycle[h], closeCalls[h], wire[h], outputs[h], lastSet[h]>>

\* C16: with two handles on their own connections, every step is a step of
\* one call on one handle h, and it leaves everything of the other handle as
\* it was (no write, read or close on its connection, no change of its
\* lifecycle state or device) and the other caller's call as it was; what a
\* read returns is the oldest reply pending on h's own connection, a write
\* queues its reply on h's own connection, and a Close closes h's own
\* connection only.
C16_HandlesIndependent ==
    [][/\ call' = call => UNCHANGED vars
       /\ \A c \in Callers :
            call'[c] # call[c] =>
              LET h == call'[c].h
                  r == call[c]
                  r2 == call'[c]
              IN  /\ \A d \in Callers \ {c} : call'[d] = call[d]
                  /\ \A g \in Handles \ {h} : HandleState(g)' = HandleState(g)
                  /\ (~CanCall(c) /\ Last(r2.io).k = "read") =>
                       /\ r.h = h
                       /\ wire[h] # <<>> /\ wire'[h] = Tail(wire[h])
                       /\ Last(r2.io).ok =>
                            /\ Last(r2.io).b0 = Head(wire[h]).b0
                            /\ Last(r2.io).b1 = Head(wire[h]).b1
                  /\ (~CanCall(c) /\ Last(r2.io).k = "write") =>
                       /\ r.h = h
                       /\ Last(r2.io).ok =>
                            wire'[h] = Append(wire[h], StubReply(outputs'[h], r.buf[0]))
                  /\ (CanCall(c) /\ r2.op = "Close" /\ r2.io # <<>>) =>
                       /\ closeCalls'[h] = closeCalls[h] + 1
                       /\ lifecycle'[h] = "Closed"]_vars

\* Handle 1 has been closed while a GetPortState on handle 2 waits for its
\* reply: handle 2 is Open and the reply is pending on its connection.
C16_Witness ==
    /\ call[1].op = "Close" /\ call[1].h = 1 /\ call[1].pc = "done"
    /\ call[1].io = <<CloseEvent(TRUE)>>
    /\ lifecycle[1] = "Closed" /\ closeCalls[1] = 1
    /\ call[2].op = "GetPortState" /\ call[2].h = 2 /\ call[2].pc = "read"
    /\ lifecycle[2] = "Open" /\ device[2] # NIL /\ closeCalls[2] = 0
    /\ Len(wire[2]) = 1 /\ wire[1] = <<>>


\* The most exchanges a call of operation op makes.
MaxExchanges(op) == IF op = "GetAllPortsState" THEN Len(QueryOrder) ELSE 1

\* C17: on a transport that completes every Write and Read, a call that has
\* gone on to its transport calls eventually returns, after at most one
\* exchange, or three for GetAllPortsState; and a call that waits in a Write
\* or a Read leaves it only by that transport call completing (there is no
\* timeout, retry or cancellation), so it never returns if the call never
\* completes.
C17_ReturnsIffTransportCompletes ==
    /\ \A c \in OneCaller :
         (call[c].pc \in {"write", "read"}) ~> (call[c].pc = "done")
    /\ [](\A c \in OneCaller : NumExchanges(call[c].io) <= MaxExchanges(call[c].op))
    /\ [][\A c \in OneCaller :
            (call[c].pc \in {"write", "read"} /\ call'[c] # call[c]) =>
              /\ call'[c].io = Append(call[c].io, Last(call'[c].io))
              /\ Last(call'[c].io).k = call[c].pc]_vars

\* A GetAllPortsState has returned after three exchanges, the third of which
\* failed in its read.
C17_Witness ==
    \E c \in Callers :
      /\ call[c].op = "GetAllPortsState" /\ call[c].pc = "done"
      /\ NumExchanges(call[c].io) = 3 /\ Len(call[c].io) = 6
      /\ ~call[c].io[6].ok /\ call[c].retErr = ErrRead


\* The step in which caller c calls Close and hid Close returns an error.
CloseFails(c) ==
    /\ CanCall(c)
    /\ call'[c].op = "Close" /\ call'[c].pc = "done"
    /\ call'[c].io = <<CloseEvent(FALSE)>>

\* The step in which caller c makes a call on a handle that is Closed.
CallOnClosed(c) ==
    /\ CanCall(c)
    /\ call'[c] # call[c]
    /\ lifecycle[call'[c].h] = "Closed"

\* What is common to C18 as stated and as amended: a Close in which hid Close
\* fails is a Close of an Open handle, returns hid Close's error and leaves
\* the handle Closed, without its connection; any call on a Closed handle
\* returns at once without a transport call and leaves the handle Closed; and
\* a Close on it returns nil.
C18_ClosedAfterCloseError ==
    \A c \in Callers :
      LET r2 == call'[c]
          h == r2.h
      IN  /\ CloseFails(c) =>
               /\ lifecycle[h] = "Open"
               /\ r2.retErr = ErrClose
               /\ device'[h] = NIL /\ lifecycle'[h] = "Closed"
               /\ closeCalls'[h] = closeCalls[h] + 1
          /\ CallOnClosed(c) =>
               /\ r2.pc = "done" /\ r2.io = <<>>
               /\ device'[h] = NIL /\ lifecycle'[h] = "Closed"
               /\ UNCHANGED <<closeCalls, wire>>
               /\ r2.op = "Close" => r2.retErr = ErrNone

\* C18 as stated: hid Close's error is returned and the handle is Closed
\* anyway; a following Close returns nil without a transport call and every
\* following command fails with the not-connected error without I/O.
C18_Original ==
    [][/\ C18_ClosedAfterCloseError
       /\ \A c \in Callers :
            (CallOnClosed(c) /\ call'[c].op \in CommandOps) =>
              call'[c].retErr = ErrNotConnected]_vars

\* C18, amended: hid Close's error is returned and the handle is Closed
\* anyway; a following Close returns nil without a transport call and every
\* following command fails without I/O, with the not-connected error
\* (wrapped with the port by GetAllPortsState), or with the invalid-port
\* error if its port is invalid.
C18_CloseErrorStillCloses ==
    [][/\ C18_ClosedAfterCloseError
       /\ \A c \in Callers :
            (CallOnClosed(c) /\ call'[c].op \in CommandOps) =>
              /\ call'[c].retErr =
                   IF InvalidPortCall(call'[c])
                     THEN (IF call'[c].op = "GetPortState" THEN ErrInvalidQueryPort
                                                           ELSE ErrInvalidPort)
                     ELSE ErrNotConnected
              /\ call'[c].retWrapped = (call'[c].op = "GetAllPortsState")]_vars

\* A Close of an Open handle has returned hid Close's error, and the handle
\* is Closed and without its connection, which was closed once.
C18_Witness ==
    \E c \in Callers :
      /\ call[c].op = "Close" /\ call[c].pc = "done"
      /\ call[c].retErr = ErrClose
      /\ call[c].io = <<CloseEvent(FALSE)>>
      /\ lifecycle[call[c].h] = "Closed" /\ device[call[c].h] = NIL
      /\ closeCalls[call[c].h] = 1


\* The operations that only query, and the opcodes of the queries.
QueryOps == {"GetPortState", "GetAllPortsState", "GetSerial"}
QueryOpcodes == {\H21, \H22, \H23}

\* C19: every report a GetPortState or GetAllPortsState writes has a query
\* opcode, 0x21, 0x22 or 0x23, as byte 0, and GetSerial makes no transport
\* call; so, against the stub switch, whose outputs change only on a PortUp
\* or PortDown opcode, no step of a query operation changes any port's
\* output.
C19_QueriesDoNotActuate ==
    /\ [](\A c \in Callers :
            call[c].op \in QueryOps =>
              /\ \A i \in 1..Len(call[c].io) :
                   call[c].io[i].k = "write" => call[c].io[i].b0 \in QueryOpcodes
              /\ call[c].pc \in {"write", "read"} => call[c].buf[0] \in QueryOpcodes
              /\ call[c].op = "GetSerial" => call[c].io = <<>>)
    /\ [][(\A c \in Callers : call'[c] # call[c] => call'[c].op \in QueryOps)
            => UNCHANGED outputs]_vars

\* With Port1 and Port3 on and Port2 off, a GetAllPortsState has made its
\* three exchanges and returned those states, and the outputs are as they
\* were.
C19_Witness ==
    \E c \in Callers :
      /\ call[c].op = "GetAllPortsState" /\ call[c].pc = "done"
      /\ call[c].retErr = ErrNone /\ Len(call[c].io) = 6
      /\ outputs[call[c].h] = (Port1 :> TRUE @@ Port2 :> FALSE @@ Port3 :> TRUE)
      /\ call[c].retStates = outputs[call[c].h]

====
